---- MODULE Spec2Model ----
(***************************************************************************)
(* Tool-calling conversation loop of the DHS-Atlas agent                   *)
(* (src/dhs_atlas_agent/agents/main_agent.py).                             *)
(*                                                                         *)
(* A text is a sequence of tokens.  The tokens are the markers the code's  *)
(* regular expressions look for, a newline, a piece of prose, and whole    *)
(* JSON documents (the body of a fenced block).  In the string literals    *)
(* below ' stands for the backtick of a fence and for the double quote of  *)
(* JSON, and the Chinese literals of the source are given in English, the  *)
(* original next to them in a comment.                                     *)
(***************************************************************************)
EXTENDS Integers, Sequences, FiniteSets, TLC

\* ------------------------------------------------------------------ tokens
OPEN == "'''tool_call"
FENCE == "'''"
THINK == "<think>"
ENDTHINK == "</think>"
NL == "\n"
PROSE == "prose"

\* ---------------------------------------------------------- JSON documents
\* The bodies a model may put between the fences, one per shape that
\* json.loads and the membership test of _parse_tool_calls tell apart.
DocDetail == "{'tool': 'get_client_detail', 'params': {'name': 'A'}}"
DocCategories == "{'tool': 'get_client_categories'}"
DocUnknownTool == "{'tool': 'delete_client', 'params': {}}"
DocMissingArg == "{'tool': 'get_client_detail', 'params': {}}"
DocExtraArg == "{'tool': 'get_client_categories', 'params': {'name': 'A'}}"
DocNullParams == "{'tool': 'get_client_detail', 'params': null}"
DocListParams == "{'tool': 'get_client_detail', 'params': ['A']}"
DocNumberParams == "{'tool': 'get_client_detail', 'params': 7}"
DocIntTool == "{'tool': 5, 'params': {}}"
DocNullTool == "{'tool': null}"
DocListTool == "{'tool': ['get_client_detail'], 'params': {'name': 'A'}}"
DocNoToolKey == "{'params': {'name': 'A'}}"
DocArrayWithTool == "['tool']"
DocArrayPlain == "[1, 2]"
DocStringWithTool == "'use a tool'"
DocStringPlain == "'hello'"
DocNumber == "5"
DocNull == "null"
DocBadJson == "{'tool': 'get_client_detail', "

\* A decoded JSON value: its Python type after json.loads, whether
\* `'tool' in value` is true, the value under "tool" (its type and its str()),
\* and the value under "params" (its type and, for an object, its keys).
JsonValue(doc, type, hasTool, toolType, tool, paramsType, keys) ==
    [doc |-> doc, type |-> type, hasTool |-> hasTool, toolType |-> toolType,
     tool |-> tool, paramsType |-> paramsType, keys |-> keys]

JSONDecodeError == JsonValue("", "invalid", FALSE, "absent", "", "absent", {})

\* json.loads: a table over the documents above; anything else (prose, a
\* marker, an empty or a multi-token body) is not JSON.
json_loads(s) ==
    CASE s = DocDetail -> JsonValue(s, "object", TRUE, "str", "get_client_detail", "object", {"name"})
      [] s = DocCategories -> JsonValue(s, "object", TRUE, "str", "get_client_categories", "absent", {})
      [] s = DocUnknownTool -> JsonValue(s, "object", TRUE, "str", "delete_client", "object", {})
      [] s = DocMissingArg -> JsonValue(s, "object", TRUE, "str", "get_client_detail", "object", {})
      [] s = DocExtraArg -> JsonValue(s, "object", TRUE, "str", "get_client_categories", "object", {"name"})
      [] s = DocNullParams -> JsonValue(s, "object", TRUE, "str", "get_client_detail", "null", {})
      [] s = DocListParams -> JsonValue(s, "object", TRUE, "str", "get_client_detail", "array", {})
      [] s = DocNumberParams -> JsonValue(s, "object", TRUE, "str", "get_client_detail", "number", {})
      [] s = DocIntTool -> JsonValue(s, "object", TRUE, "int", "5", "object", {})
      [] s = DocNullTool -> JsonValue(s, "object", TRUE, "null", "None", "absent", {})
      [] s = DocListTool -> JsonValue(s, "object", TRUE, "list", "['get_client_detail']", "object", {"name"})
      [] s = DocNoToolKey -> JsonValue(s, "object", FALSE, "absent", "", "object", {"name"})
      [] s = DocArrayWithTool -> JsonValue(s, "array", TRUE, "absent", "", "absent", {})
      [] s = DocArrayPlain -> JsonValue(s, "array", FALSE, "absent", "", "absent", {})
      [] s = DocStringWithTool -> JsonValue(s, "string", TRUE, "absent", "", "absent", {})
      [] s = DocStringPlain -> JsonValue(s, "string", FALSE, "absent", "", "absent", {})
      [] s = DocNumber -> JsonValue(s, "number", FALSE, "absent", "", "absent", {})
      [] s = DocNull -> JsonValue(s, "null", FALSE, "absent", "", "absent", {})
      [] OTHER -> JSONDecodeError

\* ------------------------------------------------------ _filter_think_tags
\* re.sub(r'<think>.*?</think>', '', content, flags=re.DOTALL): leftmost
\* <think>, up to the first </think> after it.
RECURSIVE StripThink(_)
StripThink(text) ==
    IF text = <<>> THEN <<>>
    ELSE IF Head(text) = THINK /\ \E j \in 2..Len(text) : text[j] = ENDTHINK
         THEN LET j == CHOOSE k \in 2..Len(text) :
                           /\ text[k] = ENDTHINK
                           /\ \A m \in 2..(k - 1) : text[m] # ENDTHINK
              IN  StripThink(SubSeq(text, j + 1, Len(text)))
         ELSE <<Head(text)>> \o StripThink(Tail(text))

\* re.sub(r'\n{3,}', '\n\n', content): a run of three or more newlines
\* becomes two.
RECURSIVE CollapseNewlines(_)
CollapseNewlines(text) ==
    IF Len(text) >= 3 /\ text[1] = NL /\ text[2] = NL /\ text[3] = NL
    THEN CollapseNewlines(Tail(text))
    ELSE IF text = <<>> THEN <<>>
         ELSE <<Head(text)>> \o CollapseNewlines(Tail(text))

\* str.strip(): leading and trailing whitespace removed.
RECURSIVE Strip(_)
Strip(text) ==
    IF text = <<>> THEN <<>>
    ELSE IF Head(text) = NL THEN Strip(Tail(text))
    ELSE IF text[Len(text)] = NL THEN Strip(SubSeq(text, 1, Len(text) - 1))
    ELSE text

\* A post-processing that leaves the reasoning block in.
FilterKeepThink(content) == Strip(CollapseNewlines(content))

_filter_think_tags(content) == Strip(CollapseNewlines(StripThink(content)))

\* ------------------------------------------------------- _parse_tool_calls
\* re.findall(r'```tool_call\s*\n?(.*?)\n?```', response, re.DOTALL): the
\* bodies of the non-overlapping matches, left to right.  A match opens at
\* ```tool_call and closes at the next ``` (the one that starts another
\* ```tool_call included); an opener with no ``` after it matches nothing.
RECURSIVE FindAll(_, _, _, _, _)
FindAll(text, i, inside, body, acc) ==
    IF i > Len(text) THEN acc
    ELSE IF ~inside
         THEN FindAll(text, i + 1, text[i] = OPEN, <<>>, acc)
         ELSE IF text[i] \in {FENCE, OPEN}
              THEN FindAll(text, i + 1, FALSE, <<>>, Append(acc, body))
              ELSE FindAll(text, i + 1, TRUE, Append(body, text[i]), acc)

re_findall(response) == FindAll(response, 1, FALSE, <<>>, <<>>)

\* json.loads(match.strip()): whitespace around the document is ignored; a
\* body that is not exactly one JSON document raises JSONDecodeError.
LoadBody(match) ==
    LET doc == SelectSeq(match, LAMBDA t : t # NL)
    IN  IF Len(doc) = 1 THEN json_loads(doc[1]) ELSE JSONDecodeError

\* `'tool' in call`: key membership on a dict, element membership on a list,
\* substring on a str; on an int or None it raises TypeError.
InRaises(call) == call.type \in {"number", "null"}

\* The loop over the matches.  A JSONDecodeError is caught (continue); the
\* TypeError of the membership test is not, and leaves the function.
RECURSIVE ParseLoop(_, _, _)
ParseLoop(matches, i, calls) ==
    IF i > Len(matches) THEN [raised |-> "", calls |-> calls]
    ELSE LET call == LoadBody(matches[i])
         IN  IF call.type = "invalid" THEN ParseLoop(matches, i + 1, calls)
             ELSE IF InRaises(call) THEN [raised |-> "TypeError", calls |-> <<>>]
             ELSE IF call.hasTool THEN ParseLoop(matches, i + 1, Append(calls, call))
             ELSE ParseLoop(matches, i + 1, calls)

_parse_tool_calls(response) == ParseLoop(re_findall(response), 1, <<>>)

\* ----------------------------------------------------------- tool registry
\* A tool function: its __name__ and the keyword arguments its signature
\* requires and allows (src/dhs_atlas_agent/tools/*/*_tools.py).
ToolFunc(name, required, allowed) ==
    [name |-> name, required |-> required, allowed |-> allowed]

ALL_TOOLS ==
    << ToolFunc("get_client_detail", {"name"}, {"name"}),
       ToolFunc("search_clients", {}, {"keyword", "category", "limit"}),
       ToolFunc("get_client_categories", {}, {}),
       ToolFunc("get_quotation_detail", {}, {"quotation_id", "name"}),
       ToolFunc("query_client_quotation", {"client_name"}, {"client_name"}),
       ToolFunc("get_service_pricing", {}, {"category", "service_ids"}),
       ToolFunc("get_collection_schema", {"collection_name"}, {"collection_name"}),
       ToolFunc("list_collections", {}, {}),
       ToolFunc("query_collection", {"collection"},
                {"collection", "query", "projection", "sort", "limit"}),
       ToolFunc("count_documents", {"collection"}, {"collection", "query"}) >>

\* {func.__name__: func for func in all_tools}: a later function of the same
\* name replaces an earlier one.
tools_of(all_tools) ==
    [n \in {all_tools[i].name : i \in 1..Len(all_tools)} |->
        LET last == CHOOSE i \in 1..Len(all_tools) :
                        /\ all_tools[i].name = n
                        /\ \A j \in (i + 1)..Len(all_tools) : all_tools[j].name # n
        IN  all_tools[last]]

\* self._tools = {func.__name__: func for func in ALL_TOOLS}
_tools == tools_of(ALL_TOOLS)

\* The loop of _build_tools_description: one line per function of the list,
\* in order.
tools_description_of(all_tools) ==
    [i \in 1..Len(all_tools) |-> "- **" \o all_tools[i].name \o "**"]

\* _build_tools_description: one line per function of ALL_TOOLS, in order.
_build_tools_description == tools_description_of(ALL_TOOLS)

\* _build_system_prompt: the persona, then the tool part with the catalog.
DefaultPersona == "You are the AI assistant of DHS-Atlas"
_build_system_prompt(base_prompt) ==
    << IF base_prompt = "" THEN DefaultPersona ELSE base_prompt >>
        \o <<"## rules">> \o _build_tools_description \o <<"## call format">>

\* ai_config.get('systemPrompt'): absent in the modelled configuration.
system_prompt == _build_system_prompt("")

\* ------------------------------------------------------------ _execute_tool
\* What a handler does once its body runs is the store's business: it
\* returns a value or raises, with a message that may be empty (str(e) of an
\* exception raised without arguments).
HandlerOutcomes ==
    { [raises |-> FALSE, value |-> "record", msg |-> ""],
      [raises |-> TRUE, value |-> "None", msg |-> "store unavailable"],
      [raises |-> TRUE, value |-> "None", msg |-> ""] }

\* The dict _execute_tool returns: {"success": True, "data": ...} or
\* {"error": ...}.
SuccessResult(data) ==
    [keys |-> {"success", "data"}, success |-> TRUE, data |-> data, error |-> ""]
ErrorResult(msg) ==
    [keys |-> {"error"}, success |-> FALSE, data |-> "None", error |-> msg]
NoResult == [keys |-> {}, success |-> FALSE, data |-> "None", error |-> ""]

\* `tool_name not in self._tools` hashes tool_name: a list is unhashable
\* and the test raises TypeError, outside the try.
Unhashable(call) == call.toolType = "list"

\* self._tools[tool_name](**params) binds the keyword arguments: params must
\* be a mapping whose keys the signature accepts.
BindsTo(func, call) ==
    /\ call.paramsType \in {"object", "absent"}
    /\ func.required \subseteq call.keys
    /\ call.keys \subseteq func.allowed

\* _execute_tool(call.get('tool'), call.get('params', {})) with the outcome
\* the handler's body has if it runs: the exception that leaves the function
\* (raised), the dict returned (result) and the function whose body ran
\* (invoked, "" for none).
_execute_tool(call, outcome) ==
    IF Unhashable(call)
    THEN [raised |-> "TypeError", result |-> NoResult, invoked |-> ""]
    ELSE IF ~(call.toolType = "str" /\ call.tool \in DOMAIN _tools)
    THEN [raised |-> "",
          result |-> ErrorResult("tool not found: " \o call.tool),   \* 工具不存在: {tool_name}
          invoked |-> ""]
    ELSE LET func == _tools[call.tool]
         IN  IF ~BindsTo(func, call)
             THEN [raised |-> "",
                   result |-> ErrorResult("TypeError: bad arguments"),
                   invoked |-> ""]
             ELSE IF outcome.raises
             THEN [raised |-> "", result |-> ErrorResult(outcome.msg),
                   invoked |-> func.name]
             ELSE [raised |-> "", result |-> SuccessResult(outcome.value),
                   invoked |-> func.name]

\* ------------------------------------------------------- result formatting
\* Long texts are named by their length: "[rows:2001]" is the serialization,
\* 2001 characters long, of the value "rows-2001", and "trace:2001" is an
\* exception message of 2001 characters.
\* json.dumps(data, ensure_ascii=False, default=str) and len() of a text.
json_dumps(data) ==
    CASE data = "None" -> "null"
      [] data = "record" -> "{'name': 'A'}"
      [] data = "rows-1999" -> "[rows:1999]"
      [] data = "rows-2000" -> "[rows:2000]"
      [] data = "rows-2001" -> "[rows:2001]"
      [] data = "rows-4000" -> "[rows:4000]"
      [] OTHER -> "'" \o data \o "'"

len(data_str) ==
    CASE data_str = "null" -> 4
      [] data_str = "{'name': 'A'}" -> 13
      [] data_str = "store unavailable" -> 17
      [] data_str = "" -> 0
      [] data_str = "[rows:1999]" -> 1999
      [] data_str = "[rows:2000]" -> 2000
      [] data_str = "[rows:2001]" -> 2001
      [] data_str = "[rows:4000]" -> 4000
      [] data_str = "trace:2000" -> 2000
      [] data_str = "trace:2001" -> 2001
      [] OTHER -> 8

TruncateBudget == 2000

\* text[:n]: the text itself when it has no more than n characters, its
\* first n characters otherwise.
Slice(text, n) ==
    IF len(text) <= n THEN text ELSE text \o "[:" \o ToString(n) \o "]"

\* "...(已截断)"
TruncationMarker == "...(truncated)"

\* A truncation that also marks a text of exactly 2000 characters.
TruncateFromBudget(data_str) ==
    IF len(data_str) >= TruncateBudget
    THEN Slice(data_str, TruncateBudget) \o TruncationMarker
    ELSE data_str

\* if len(data_str) > 2000: data_str = data_str[:2000] + "...(已截断)"
Truncate(data_str) ==
    IF len(data_str) > TruncateBudget
    THEN Slice(data_str, TruncateBudget) \o TruncationMarker
    ELSE data_str

\* f"工具 {tool_name} 错误: {result['error']}"
FormatError(tool_name, error) == "tool " \o tool_name \o " error: " \o error
\* f"工具 {tool_name} 结果:\n{data_str}"
FormatResult(tool_name, data_str) == "tool " \o tool_name \o " result:\n" \o data_str

\* `if result.get("error"):` is the truth value of the message: a missing
\* key and an empty string are both false.
ErrorIsTruthy(result) == "error" \in result.keys /\ result.error # ""

FormatEntry(tool_name, result) ==
    IF ErrorIsTruthy(result)
    THEN FormatError(tool_name, result.error)
    ELSE FormatResult(tool_name, Truncate(json_dumps(result.data)))

\* The user turn of a round: "工具执行结果:\n\n" + "\n\n".join(texts) + "\n\n请根据结果..."
\* kept as the sequence of its parts.
FoldHeader == "tool results:"
FoldClosing == "answer in Chinese from the results, use Markdown tables"
\* A join that keeps only the last entry of the round.
FoldContentLastOnly(texts) ==
    <<FoldHeader>> \o (IF texts = <<>> THEN <<>> ELSE << texts[Len(texts)] >>)
        \o <<FoldClosing>>

FoldContent(texts) == <<FoldHeader>> \o texts \o <<FoldClosing>>

\* content of the ChatResponse returned when the rounds are used up
\* ("处理超时，请简化问题后重试。").
TimeoutContent == <<"timed out, simplify the question and retry">>

Message(role, content) == [role |-> role, content |-> content]

\* A fold that forgets the assistant turn.
FoldTurnsDropAssistant(resp, texts) == << Message("user", FoldContent(texts)) >>

\* The two turns a round appends (lines 288-292).
FoldTurns(resp, texts) ==
    << Message("assistant", resp), Message("user", FoldContent(texts)) >>

\* ChatResponse(content, session_id, tool_results): tool_results is a list
\* (isList) or None.
ChatResponse(content, isList, results) ==
    [content |-> content, isList |-> isList, tool_results |-> results]
NoResponse == ChatResponse(<<>>, FALSE, <<>>)

\* ------------------------------------------------------------------- state
max_rounds == 5

VARIABLES
    pc,                 \* where chat is: IDLE, AWAITING_MODEL, DISPATCHING, DONE, RAISED
    message,            \* chat's parameter
    messages,           \* chat's local `messages`
    tool_results,       \* chat's local `tool_results`
    round_num,          \* chat's loop variable
    response,           \* the text _call_llm returned in this round
    tool_calls,         \* the requests parsed from it
    call_idx,           \* position of `for call in tool_calls`
    tool_results_text,  \* chat's local of the round
    returned,           \* the ChatResponse chat returned
    raised,             \* the exception that left chat, "" for none
    llm_calls,          \* history: completion-service calls of this chat call
    received,           \* history: the texts _call_llm returned, in order
    requests,           \* history: the requests _parse_tool_calls returned, in order
    executed,           \* history: the _execute_tool calls, in order
    raw_content,        \* _call_llm's local `content` before _filter_think_tags
    events,             \* what chat_stream has yielded, in order
    sse,                \* what the SSE endpoint's event_generator has yielded, in order
    suspended,          \* the locals of a second chat coroutine that is not running
    _sessions,          \* self._sessions
    fn_args,            \* arguments of the function that is applied on its own
    fn_result           \* what it returned or raised

vars == << pc, message, messages, tool_results, round_num, response, tool_calls, call_idx,
           tool_results_text, returned, raised, llm_calls, received, requests,
           executed, raw_content, events, sse, suspended, _sessions, fn_args,
           fn_result >>

\* chat's parameters, locals and outcome.
chat_locals == << pc, message, messages, tool_results, round_num, response, tool_calls,
                  call_idx, tool_results_text, returned, raised, llm_calls, received,
                  requests, executed, raw_content >>

\* What the chat loop never touches.
outside == << events, sse, suspended, _sessions, fn_args, fn_result >>

\* self._sessions = {} (line 153); no coroutine is suspended, no stream is
\* open and no function has been applied.
NoFrame == [pc |-> "NONE"]
NoCall == [fn |-> ""]
OutsideIdle ==
    /\ events = <<>>
    /\ sse = <<>>
    /\ suspended = NoFrame
    /\ _sessions = <<>>
    /\ fn_args = NoCall
    /\ fn_result = NoCall

NumMessages == 2
UserMessages == {"question " \o ToString(i) : i \in 1..NumMessages}

\* What the completion service may answer (before _filter_think_tags).
Block(doc) == <<OPEN, NL, doc, NL, FENCE>>
LLMTexts ==
    { <<PROSE>>,
      <<THINK, PROSE>> \o Block(DocDetail) \o <<ENDTHINK, NL, NL, NL, PROSE>>,
      Block(DocDetail),
      <<PROSE>> \o Block(DocUnknownTool) \o Block(DocBadJson) \o Block(DocCategories),
      Block(DocIntTool),
      Block(DocNullParams),
      Block(DocDetail) \o Block(DocListTool) \o Block(DocCategories),
      Block(DocCategories) \o Block(DocNumber),
      Block(DocStringWithTool) }

Init ==
    /\ pc = "IDLE"
    /\ message = ""
    /\ messages = <<>>
    /\ tool_results = <<>>
    /\ round_num = 0
    /\ response = <<>>
    /\ tool_calls = <<>>
    /\ call_idx = 0
    /\ tool_results_text = <<>>
    /\ returned = NoResponse
    /\ raised = ""
    /\ llm_calls = 0
    /\ received = <<>>
    /\ requests = <<>>
    /\ executed = <<>>
    /\ raw_content = <<>>
    /\ OutsideIdle

\* chat(message): lines 241-248, up to the first await.
ChatStart(msg) ==
    /\ pc \in {"IDLE", "DONE", "RAISED"}
    /\ message' = msg
    /\ messages' = << Message("system", system_prompt), Message("user", <<msg>>) >>
    /\ tool_results' = <<>>
    /\ round_num' = 0
    /\ pc' = "AWAITING_MODEL"
    /\ response' = <<>>
    /\ tool_calls' = <<>>
    /\ call_idx' = 0
    /\ tool_results_text' = <<>>
    /\ returned' = NoResponse
    /\ raised' = ""
    /\ llm_calls' = 0
    /\ received' = <<>>
    /\ requests' = <<>>
    /\ executed' = <<>>
    /\ raw_content' = <<>>
    /\ UNCHANGED outside

\* `raise` out of chat: nothing is returned.
Raise(exc) ==
    /\ pc' = "RAISED"
    /\ raised' = exc
    /\ returned' = NoResponse

\* return ChatResponse(...)
Return(resp) ==
    /\ pc' = "DONE"
    /\ returned' = resp
    /\ raised' = ""

\* response = await self._call_llm(messages) answered with status 200, then
\* _parse_tool_calls and the `if not tool_calls` return (lines 252-264).
LLMResponds(text) ==
    /\ pc = "AWAITING_MODEL"
    /\ llm_calls' = llm_calls + 1
    /\ LET content == _filter_think_tags(text)
           parsed == _parse_tool_calls(content)
       IN  /\ response' = content
           /\ received' = Append(received, content)
           /\ IF parsed.raised # ""
              THEN Raise(parsed.raised) /\ UNCHANGED <<tool_calls, call_idx, requests>>
              ELSE IF parsed.calls = <<>>
              THEN /\ Return(ChatResponse(content, tool_results # <<>>, tool_results))
                   /\ UNCHANGED <<tool_calls, call_idx, requests>>
              ELSE /\ tool_calls' = parsed.calls
                   /\ requests' = requests \o parsed.calls
                   /\ call_idx' = 1
                   /\ pc' = "DISPATCHING"
                   /\ UNCHANGED <<returned, raised>>
    /\ tool_results_text' = <<>>
    /\ raw_content' = text
    /\ UNCHANGED <<message, messages, tool_results, round_num, executed>>
    /\ UNCHANGED outside

LLMApiError == "Exception: LLM API"

\* A _call_llm that swallows the failure and posts the request again.
LLMFailsRetried ==
    /\ pc = "AWAITING_MODEL"
    /\ llm_calls' = llm_calls + 1
    /\ UNCHANGED <<pc, returned, raised, message, messages, tool_results, round_num,
                   response, tool_calls, call_idx, tool_results_text, received,
                   requests, executed, raw_content>>
    /\ UNCHANGED outside

\* _call_llm raises: the service is unreachable, times out or answers with
\* a status other than 200 (lines 203-221).  chat does not catch it.
LLMFails ==
    /\ pc = "AWAITING_MODEL"
    /\ llm_calls' = llm_calls + 1
    /\ Raise(LLMApiError)
    /\ UNCHANGED <<message, messages, tool_results, round_num, response, tool_calls,
                   call_idx, tool_results_text, received, requests, executed,
                   raw_content>>
    /\ UNCHANGED outside

\* One turn of `for call in tool_calls` (lines 268-285).  call.get on a
\* list or a str raises AttributeError.
ExecuteCall(outcome) ==
    /\ pc = "DISPATCHING"
    /\ call_idx <= Len(tool_calls)
    /\ LET call == tool_calls[call_idx]
           ex == _execute_tool(call, outcome)
       IN  IF call.type # "object"
           THEN /\ Raise("AttributeError")
                /\ UNCHANGED <<tool_results, tool_results_text, call_idx, executed>>
           ELSE /\ executed' = Append(executed,
                        [round |-> round_num, idx |-> call_idx, call |-> call,
                         raised |-> ex.raised, result |-> ex.result,
                         invoked |-> ex.invoked,
                         before |-> Len(tool_results)])
                /\ IF ex.raised # ""
                   THEN /\ Raise(ex.raised)
                        /\ UNCHANGED <<tool_results, tool_results_text, call_idx>>
                   ELSE /\ tool_results' = Append(tool_results,
                                [tool |-> call.tool, result |-> ex.result])
                        /\ tool_results_text' = Append(tool_results_text,
                                FormatEntry(call.tool, ex.result))
                        /\ call_idx' = call_idx + 1
                        /\ UNCHANGED <<pc, returned, raised>>
    /\ UNCHANGED <<message, messages, round_num, response, tool_calls, llm_calls,
                   received, requests, raw_content>>
    /\ UNCHANGED outside

\* End of the round (lines 288-292), the next turn of `for round_num in
\* range(max_rounds)` and, when the range is used up, lines 295-299.
Fold ==
    /\ pc = "DISPATCHING"
    /\ call_idx > Len(tool_calls)
    /\ messages' = messages \o FoldTurns(response, tool_results_text)
    /\ round_num' = round_num + 1
    /\ IF round_num + 1 < max_rounds
       THEN pc' = "AWAITING_MODEL" /\ UNCHANGED <<returned, raised>>
       ELSE Return(ChatResponse(TimeoutContent, TRUE, tool_results))
    /\ UNCHANGED <<message, tool_results, response, tool_calls, call_idx,
                   tool_results_text, llm_calls, received, requests, executed,
                   raw_content>>
    /\ UNCHANGED outside

Next ==
    \/ \E msg \in UserMessages : ChatStart(msg)
    \/ \E text \in LLMTexts : LLMResponds(text)
    \/ LLMFails
    \/ \E outcome \in HandlerOutcomes : ExecuteCall(outcome)
    \/ Fold

Spec == Init /\ [][Next]_vars

\* ------------------------------------------- _parse_tool_calls on its own
\* The texts the parser is applied to: up to MaxSegments segments, each a
\* piece of prose, a fenced tool_call block around one of the documents, a
\* fenced block of another kind, or an opener that nothing closes.
Docs ==
    { DocDetail, DocCategories, DocUnknownTool, DocMissingArg, DocExtraArg,
      DocNullParams, DocListParams, DocNumberParams, DocIntTool, DocNullTool,
      DocListTool, DocNoToolKey, DocArrayWithTool, DocArrayPlain,
      DocStringWithTool, DocStringPlain, DocNumber, DocNull, DocBadJson }

Segments ==
    {Block(d) : d \in Docs}
        \cup { <<PROSE>>, <<FENCE, DocDetail, FENCE>>, <<OPEN>>, <<OPEN, FENCE>> }

MaxSegments == 3

RECURSIVE TextsOf(_)
TextsOf(n) ==
    IF n = 0 THEN { <<>> }
    ELSE LET shorter == TextsOf(n - 1)
         IN  shorter \cup { t \o sgm : t \in shorter, sgm \in Segments }

InitParse ==
    /\ pc = "PARSING"
    /\ response \in TextsOf(MaxSegments)
    /\ message = ""
    /\ messages = <<>>
    /\ tool_results = <<>>
    /\ round_num = 0
    /\ tool_calls = <<>>
    /\ call_idx = 0
    /\ tool_results_text = <<>>
    /\ returned = NoResponse
    /\ raised = ""
    /\ llm_calls = 0
    /\ received = <<>>
    /\ requests = <<>>
    /\ executed = <<>>
    /\ raw_content = <<>>
    /\ OutsideIdle

\* tool_calls = self._parse_tool_calls(response): the list returned, or the
\* exception that leaves the function.
ParseResponse ==
    /\ pc = "PARSING"
    /\ LET parsed == _parse_tool_calls(response)
       IN  /\ tool_calls' = parsed.calls
           /\ raised' = parsed.raised
    /\ pc' = "PARSED"
    /\ UNCHANGED <<message, messages, tool_results, round_num, response, call_idx,
                   tool_results_text, returned, llm_calls, received, requests, executed,
                   raw_content>>
    /\ UNCHANGED outside

NextParse == ParseResponse

SpecParse == InitParse /\ [][NextParse]_vars

\* ----------------------------------------------- _execute_tool on its own
\* The requests the dispatcher may be handed: JSON objects with a "tool"
\* key, whose value is a registered name, another string, a number, null or
\* a list, and whose "params" is absent, an object, null, a list or a number.
ToolValues ==
    { [toolType |-> "str", tool |-> ALL_TOOLS[i].name] : i \in 1..Len(ALL_TOOLS) }
        \cup { [toolType |-> "str", tool |-> "delete_client"],
               [toolType |-> "str", tool |-> ""],
               [toolType |-> "int", tool |-> "5"],
               [toolType |-> "null", tool |-> "None"],
               [toolType |-> "list", tool |-> "['get_client_detail']"] }

ParamValues ==
    { [paramsType |-> "object", keys |-> k] :
          k \in { {}, {"name"}, {"collection"}, {"client_name"}, {"collection_name"},
                  {"name", "limit"}, {"collection", "query"} } }
        \cup { [paramsType |-> "absent", keys |-> {}],
               [paramsType |-> "null", keys |-> {}],
               [paramsType |-> "array", keys |-> {}],
               [paramsType |-> "number", keys |-> {}] }

ExecCalls ==
    { JsonValue("", "object", TRUE, t.toolType, t.tool, p.paramsType, p.keys) :
          t \in ToolValues, p \in ParamValues }

InitExec ==
    /\ pc = "DISPATCHING"
    /\ \E call \in ExecCalls : tool_calls = <<call>>
    /\ call_idx = 1
    /\ message = ""
    /\ messages = <<>>
    /\ tool_results = <<>>
    /\ round_num = 0
    /\ response = <<>>
    /\ tool_results_text = <<>>
    /\ returned = NoResponse
    /\ raised = ""
    /\ llm_calls = 0
    /\ received = <<>>
    /\ requests = <<>>
    /\ executed = <<>>
    /\ raw_content = <<>>
    /\ OutsideIdle

NextExec == \E outcome \in HandlerOutcomes : ExecuteCall(outcome)

SpecExec == InitExec /\ [][NextExec]_vars

\* ------------------------------------------- one round of dispatch and fold
\* The first round of a chat call from the point where the answer has been
\* parsed: the requests are dispatched to handlers that return short or long
\* values or raise with short or long messages, and the round is folded.

InitRound ==
    /\ pc = "DISPATCHING"
    /\ message = "question 1"
    /\ messages = << Message("system", system_prompt), Message("user", <<"question 1">>) >>
    /\ tool_results = <<>>
    /\ round_num = 0
    /\ raw_content \in ({ Block(DocDetail),
            Block(DocCategories) \o <<PROSE>> \o Block(DocDetail),
            Block(DocUnknownTool) \o Block(DocCategories) })
    /\ response = _filter_think_tags(raw_content)
    /\ tool_calls = _parse_tool_calls(response).calls
    /\ call_idx = 1
    /\ tool_results_text = <<>>
    /\ returned = NoResponse
    /\ raised = ""
    /\ llm_calls = 1
    /\ received = <<response>>
    /\ requests = tool_calls
    /\ executed = <<>>
    /\ OutsideIdle

NextRound ==
    \/ \E outcome \in
            (HandlerOutcomes \cup { [raises |-> FALSE, value |-> "rows-1999", msg |-> ""],
            [raises |-> FALSE, value |-> "rows-2000", msg |-> ""],
            [raises |-> FALSE, value |-> "rows-2001", msg |-> ""],
            [raises |-> FALSE, value |-> "rows-4000", msg |-> ""],
            [raises |-> TRUE, value |-> "None", msg |-> "trace:2000"],
            [raises |-> TRUE, value |-> "None", msg |-> "trace:2001"] }) : ExecuteCall(outcome)
    \/ Fold

SpecRound == InitRound /\ [][NextRound]_vars

\* ------------------------------------- the answer of the completion service
\* The first answer of a chat call, with reasoning markers anywhere around
\* and between prose and tool_call blocks, and the dispatch of what was
\* parsed from it.

MaxThinkSegments == 4

RECURSIVE ThinkTextsOf(_)
ThinkTextsOf(n) ==
    IF n = 0 THEN { <<>> }
    ELSE LET shorter == ThinkTextsOf(n - 1)
         IN  shorter \cup { t \o sgm : t \in shorter, sgm \in ({ <<THINK>>, <<ENDTHINK>>,
                 <<PROSE>>, Block(DocDetail), Block(DocCategories) }) }

InitAnswer ==
    /\ pc = "AWAITING_MODEL"
    /\ message = "question 1"
    /\ messages = << Message("system", system_prompt), Message("user", <<"question 1">>) >>
    /\ tool_results = <<>>
    /\ round_num = 0
    /\ response = <<>>
    /\ tool_calls = <<>>
    /\ call_idx = 0
    /\ tool_results_text = <<>>
    /\ returned = NoResponse
    /\ raised = ""
    /\ llm_calls = 0
    /\ received = <<>>
    /\ requests = <<>>
    /\ executed = <<>>
    /\ raw_content = <<>>
    /\ OutsideIdle

NextAnswer ==
    \/ \E text \in ThinkTextsOf(MaxThinkSegments) : LLMResponds(text)
    \/ \E outcome \in HandlerOutcomes : ExecuteCall(outcome)

SpecAnswer == InitAnswer /\ [][NextAnswer]_vars

\* ------------------------------------------------- two chat calls at once
\* chat is a coroutine: its parameters and locals live in its own frame, and
\* the event loop runs another coroutine only while this one awaits the
\* completion service (line 252) or is not running.  The variables above
\* are the frame of the coroutine that runs; `suspended` keeps the frame of
\* the other one.
Frame ==
    [pc |-> pc,
     message |-> message,
     messages |-> messages,
     tool_results |-> tool_results,
     round_num |-> round_num,
     response |-> response,
     tool_calls |-> tool_calls,
     call_idx |-> call_idx,
     tool_results_text |-> tool_results_text,
     returned |-> returned,
     raised |-> raised,
     llm_calls |-> llm_calls,
     received |-> received,
     requests |-> requests,
     executed |-> executed,
     raw_content |-> raw_content]

\* The frame of a chat call that has not been made.
NotStarted ==
    [pc |-> "IDLE", message |-> "", messages |-> <<>>, tool_results |-> <<>>,
     round_num |-> 0, response |-> <<>>, tool_calls |-> <<>>, call_idx |-> 0,
     tool_results_text |-> <<>>, returned |-> NoResponse, raised |-> "",
     llm_calls |-> 0, received |-> <<>>, requests |-> <<>>, executed |-> <<>>,
     raw_content |-> <<>>]

\* A result list kept on the agent instead of in the frame: the coroutine
\* that resumes finds what the other one left there.
ResumeWithSharedResults(frame) == [frame EXCEPT !.tool_results = tool_results]

\* What a coroutine finds when it resumes: `messages = [...]` and
\* `tool_results = []` (lines 242-247) are locals, so it finds them as it
\* left them.
Resume(frame) == frame

\* The event loop suspends the running coroutine at its await and resumes
\* the other.
Switch ==
    /\ pc \in {"IDLE", "AWAITING_MODEL", "DONE", "RAISED"}
    /\ suspended # NoFrame
    /\ suspended' = Frame
    /\ LET f == Resume(suspended)
       IN
           /\ pc' = f.pc
           /\ message' = f.message
           /\ messages' = f.messages
           /\ tool_results' = f.tool_results
           /\ round_num' = f.round_num
           /\ response' = f.response
           /\ tool_calls' = f.tool_calls
           /\ call_idx' = f.call_idx
           /\ tool_results_text' = f.tool_results_text
           /\ returned' = f.returned
           /\ raised' = f.raised
           /\ llm_calls' = f.llm_calls
           /\ received' = f.received
           /\ requests' = f.requests
           /\ executed' = f.executed
           /\ raw_content' = f.raw_content
    /\ UNCHANGED <<events, sse, _sessions, fn_args, fn_result>>

InitTwo ==
    /\ pc = "IDLE"
    /\ message = ""
    /\ messages = <<>>
    /\ tool_results = <<>>
    /\ round_num = 0
    /\ response = <<>>
    /\ tool_calls = <<>>
    /\ call_idx = 0
    /\ tool_results_text = <<>>
    /\ returned = NoResponse
    /\ raised = ""
    /\ llm_calls = 0
    /\ received = <<>>
    /\ requests = <<>>
    /\ executed = <<>>
    /\ raw_content = <<>>
    /\ events = <<>>
    /\ sse = <<>>
    /\ suspended = NotStarted
    /\ _sessions = <<>>
    /\ fn_args = NoCall
    /\ fn_result = NoCall

NextTwo ==
    \/ \E msg \in UserMessages : ChatStart(msg)
    \/ \E text \in ({ <<PROSE>>, Block(DocDetail) }) : LLMResponds(text)
    \/ LLMFails
    \/ \E outcome \in ({ [raises |-> FALSE, value |-> "record", msg |-> ""],
            [raises |-> TRUE, value |-> "None", msg |-> "store unavailable"] }) : ExecuteCall(outcome)
    \/ Fold
    \/ Switch

SpecTwo == InitTwo /\ [][NextTwo]_vars

\* ------------------------------------------------------------ clear_session
\* self._sessions maps a session id to a transcript.  The agent creates it
\* empty and writes nothing to it; a session-keyed history layered on the
\* agent is what fills it, so the stores such a layer may have left are the
\* ones clear_session is applied to.
NumSessions == 3
SessionIds == { "session " \o ToString(i) : i \in 1..NumSessions }
SessionStores ==
    UNION { [ids -> ({ <<"question 1">>,
            <<"question 1", "answer", "question 2">> })] : ids \in SUBSET SessionIds }

\* A clear_session that deletes without looking: `del self._sessions[id]`
\* raises KeyError for an absent id.
clear_session_unguarded(sessions, session_id) ==
    IF session_id \in DOMAIN sessions
    THEN [raised |-> "",
          sessions |-> [id \in DOMAIN sessions \ {session_id} |-> sessions[id]]]
    ELSE [raised |-> "KeyError", sessions |-> sessions]

\* if session_id in self._sessions: del self._sessions[session_id]
clear_session(sessions, session_id) ==
    IF session_id \in DOMAIN sessions
    THEN [raised |-> "",
          sessions |-> [id \in DOMAIN sessions \ {session_id} |-> sessions[id]]]
    ELSE [raised |-> "", sessions |-> sessions]

\* DELETE /api/agent/session/{session_id} (server.py lines 196-203):
\* agent.clear_session(session_id), then {"status": "ok", ...}; an
\* exception leaves the handler and the framework answers 500.
ClearSession(session_id) ==
    LET cleared == clear_session(_sessions, session_id)
    IN  /\ _sessions' = cleared.sessions
        /\ fn_args' = [fn |-> "clear_session", session_id |-> session_id,
                       before |-> _sessions,
                       previous |-> IF fn_args.fn = "clear_session"
                                    THEN fn_args.session_id ELSE ""]
        /\ fn_result' = [fn |-> "clear_session", raised |-> cleared.raised,
                         status |-> IF cleared.raised = "" THEN "ok" ELSE "500"]
        /\ UNCHANGED chat_locals
        /\ UNCHANGED <<events, sse, suspended>>

InitSessions ==
    /\ _sessions \in SessionStores
    /\ pc = "IDLE"
    /\ message = ""
    /\ messages = <<>>
    /\ tool_results = <<>>
    /\ round_num = 0
    /\ response = <<>>
    /\ tool_calls = <<>>
    /\ call_idx = 0
    /\ tool_results_text = <<>>
    /\ returned = NoResponse
    /\ raised = ""
    /\ llm_calls = 0
    /\ received = <<>>
    /\ requests = <<>>
    /\ executed = <<>>
    /\ raw_content = <<>>
    /\ events = <<>>
    /\ sse = <<>>
    /\ suspended = NoFrame
    /\ fn_args = NoCall
    /\ fn_result = NoCall

NextSessions == \E session_id \in SessionIds : ClearSession(session_id)

SpecSessions == InitSessions /\ [][NextSessions]_vars

\* ---------------------------------------------------- query_client_quotation
\* The store as the tool sees it: the clients by name with their
\* quotationId ("None" when the field is missing, possibly empty, possibly
\* not the text of an ObjectId), the quotations by _id with their
\* selectedServices, and the _ids of the service pricings in the order the
\* collection returns them.
None == [isNone |-> TRUE]

QuotationA == "64b000000000000000000001"
QuotationB == "64b000000000000000000002"
ServiceA == "64c000000000000000000001"
ServiceB == "64c000000000000000000002"
ObjectIdTexts == { QuotationA, QuotationB, ServiceA, ServiceB }

ClientNames == { "A Press", "B Press" }

Stores ==
    { [clients |-> c, quotations |-> q, servicepricings |-> sp] :
        c \in UNION { [names -> ({ "None", "", QuotationA, QuotationB, "Q-2024" })] : names \in SUBSET ClientNames },
        q \in UNION { [ids -> ({ <<>>, <<ServiceA>>, <<ServiceB, ServiceA>>,
                <<ServiceA, ServiceA>>, <<ServiceA, "">>,
                <<"S-1">> })] : ids \in SUBSET {QuotationA} }
                \cup { [ids \in {QuotationB} |-> <<ServiceA>>] },
        sp \in ({ <<>>, <<ServiceA>>, <<ServiceA, ServiceB>> }) }

\* to_object_id: ObjectId(id_str) raises InvalidId unless the text is 24
\* hexadecimal digits.
to_object_id(id_str) ==
    IF id_str \in ObjectIdTexts
    THEN [raised |-> "", oid |-> id_str]
    ELSE [raised |-> "InvalidId", oid |-> ""]

\* A lookup by name that takes the first client of the collection whatever
\* the name.
ClientModel_find_first(db, name) ==
    IF DOMAIN db.clients = {}
    THEN None
    ELSE LET found == CHOOSE n \in DOMAIN db.clients : TRUE
         IN  [isNone |-> FALSE, name |-> found, quotation_id |-> db.clients[found]]

\* ClientModel.find_by_name: find_one({"name": name}), None when no
\* document matches.
ClientModel_find_by_name(db, name) ==
    IF name \in DOMAIN db.clients
    THEN [isNone |-> FALSE, name |-> name, quotation_id |-> db.clients[name]]
    ELSE None

\* QuotationModel.find_by_id: find_one({"_id": to_object_id(id)}).
QuotationModel_find_by_id(db, id) ==
    LET converted == to_object_id(id)
    IN  IF converted.raised # ""
        THEN [raised |-> converted.raised, quotation |-> None]
        ELSE IF converted.oid \in DOMAIN db.quotations
        THEN [raised |-> "",
              quotation |-> [isNone |-> FALSE, id |-> converted.oid,
                             selected_services |-> db.quotations[converted.oid]]]
        ELSE [raised |-> "", quotation |-> None]

\* A find_by_ids that answers with one entry per id it was given, stored or
\* not.
ServicePricingModel_find_each(db, ids) ==
    [raised |-> "", services |-> SelectSeq(ids, LAMBDA id : id # "")]

\* ServicePricingModel.find_by_ids: the ids that are not empty are
\* converted with to_object_id, and the documents whose _id is one of them
\* are returned as the collection lists them.
ServicePricingModel_find_by_ids(db, ids) ==
    LET given == SelectSeq(ids, LAMBDA id : id # "")
        wanted == { given[i] : i \in 1..Len(given) }
    IN  IF \E id \in wanted : to_object_id(id).raised # ""
        THEN [raised |-> "InvalidId", services |-> <<>>]
        ELSE [raised |-> "",
              services |-> SelectSeq(db.servicepricings, LAMBDA sid : sid \in wanted)]

\* Client.to_dict, Quotation.to_dict, ServicePricing.to_dict
ClientDict(client) == [isNone |-> FALSE, name |-> client.name,
                       quotationId |-> client.quotation_id]
QuotationDict(quotation) == [isNone |-> FALSE, id |-> quotation.id,
                             selectedServices |-> quotation.selected_services]
ServiceDict(sid) == [id |-> sid]

Lookup(model, method, arg) == [model |-> model, method |-> method, arg |-> arg]

\* `not client.quotation_id`
Falsy(value) == value \in { "None", "" }

EmptyResult ==
    [client |-> None, quotation |-> None, services |-> <<>>, total_services |-> 0,
     message |-> "None"]

\* f"未找到客户: {client_name}", "该客户没有关联的报价单",
\* f"报价单不存在 (ID: {client.quotation_id})"
ClientNotFound(client_name) == "client not found: " \o client_name
NoQuotationLinked == "the client has no associated quotation"
QuotationMissing(quotation_id) == "quotation does not exist (ID: " \o quotation_id \o ")"

\* query_client_quotation(client_name) on the store db: the exception that
\* leaves it (raised), the dict it returns (result) and the lookups it made,
\* in order.
query_client_quotation(db, client_name) ==
    LET client == ClientModel_find_by_name(db, client_name)
        look1 == << Lookup("ClientModel", "find_by_name", client_name) >>
    IN  IF client = None
        THEN [raised |-> "",
              result |-> [EmptyResult EXCEPT !.message = ClientNotFound(client_name)],
              lookups |-> look1]
        ELSE LET result1 == [EmptyResult EXCEPT !.client = ClientDict(client)]
             IN  IF Falsy(client.quotation_id)
                 THEN [raised |-> "",
                       result |-> [result1 EXCEPT !.message = NoQuotationLinked],
                       lookups |-> look1]
                 ELSE LET found == QuotationModel_find_by_id(db, client.quotation_id)
                          look2 == Append(look1, Lookup("QuotationModel", "find_by_id",
                                                        client.quotation_id))
                      IN  IF found.raised # ""
                          THEN [raised |-> found.raised, result |-> EmptyResult,
                                lookups |-> look2]
                          ELSE IF found.quotation = None
                          THEN [raised |-> "",
                                result |-> [result1 EXCEPT !.message =
                                               QuotationMissing(client.quotation_id)],
                                lookups |-> look2]
                          ELSE LET quotation == found.quotation
                                   result2 == [result1 EXCEPT !.quotation =
                                                  QuotationDict(quotation)]
                               IN  IF quotation.selected_services = <<>>
                                   THEN [raised |-> "", result |-> result2,
                                         lookups |-> look2]
                                   ELSE LET priced == ServicePricingModel_find_by_ids(
                                                db, quotation.selected_services)
                                            services == priced.services
                                        IN  [raised |-> priced.raised,
                                             result |-> [result2 EXCEPT
                                                !.services = [i \in 1..Len(services) |->
                                                                ServiceDict(services[i])],
                                                !.total_services = Len(services)],
                                             lookups |-> Append(look2,
                                                Lookup("ServicePricingModel", "find_by_ids",
                                                       quotation.selected_services))]

InitQuotation ==
    /\ \E db \in Stores, client_name \in (ClientNames \cup { "Unknown Co" }) :
          fn_args = [fn |-> "query_client_quotation", db |-> db,
                     client_name |-> client_name]
    /\ fn_result = NoCall
    /\ pc = "IDLE"
    /\ message = ""
    /\ messages = <<>>
    /\ tool_results = <<>>
    /\ round_num = 0
    /\ response = <<>>
    /\ tool_calls = <<>>
    /\ call_idx = 0
    /\ tool_results_text = <<>>
    /\ returned = NoResponse
    /\ raised = ""
    /\ llm_calls = 0
    /\ received = <<>>
    /\ requests = <<>>
    /\ executed = <<>>
    /\ raw_content = <<>>
    /\ events = <<>>
    /\ sse = <<>>
    /\ suspended = NoFrame
    /\ _sessions = <<>>

\* result = query_client_quotation(client_name), called as main.py's
\* run_test calls it.
QueryClientQuotation ==
    /\ fn_args.fn = "query_client_quotation"
    /\ fn_result = NoCall
    /\ LET out == query_client_quotation(fn_args.db, fn_args.client_name)
       IN  fn_result' = [fn |-> "query_client_quotation", raised |-> out.raised,
                         result |-> out.result, lookups |-> out.lookups]
    /\ UNCHANGED chat_locals
    /\ UNCHANGED <<events, sse, suspended, _sessions, fn_args>>

NextQuotation == QueryClientQuotation

SpecQuotation == InitQuotation /\ [][NextQuotation]_vars

\* ------------------------------------------------ building the registry
\* The agent constructed over a tool list other than the shipped one: up to
\* MaxTools functions, two of which have the same __name__.

MaxTools == 3

RECURSIVE ToolLists(_)
ToolLists(n) ==
    IF n = 0 THEN { <<>> }
    ELSE LET shorter == ToolLists(n - 1)
         IN  shorter \cup { Append(l, f) : l \in shorter, f \in
                 ({ ToolFunc("get_client_detail", {"name"}, {"name"}),
                 ToolFunc("get_client_detail", {"client_id"}, {"client_id"}),
                 ToolFunc("search_clients", {}, {"keyword", "category", "limit"}),
                 ToolFunc("list_collections", {}, {}) }) }

InitRegistry ==
    /\ \E all_tools \in ToolLists(MaxTools) :
          fn_args = [fn |-> "__init__", all_tools |-> all_tools]
    /\ fn_result = NoCall
    /\ pc = "IDLE"
    /\ message = ""
    /\ messages = <<>>
    /\ tool_results = <<>>
    /\ round_num = 0
    /\ response = <<>>
    /\ tool_calls = <<>>
    /\ call_idx = 0
    /\ tool_results_text = <<>>
    /\ returned = NoResponse
    /\ raised = ""
    /\ llm_calls = 0
    /\ received = <<>>
    /\ requests = <<>>
    /\ executed = <<>>
    /\ raw_content = <<>>
    /\ events = <<>>
    /\ sse = <<>>
    /\ suspended = NoFrame
    /\ _sessions = <<>>

\* DHSAtlasAgent(): the catalog of the system prompt (line 147) and the
\* registry (lines 149-150) are built from the list; nothing in __init__
\* compares names, so it does not raise.
Construct ==
    /\ fn_args.fn = "__init__"
    /\ fn_result = NoCall
    /\ fn_result' = [fn |-> "__init__", raised |-> "",
                     tools |-> tools_of(fn_args.all_tools),
                     description |-> tools_description_of(fn_args.all_tools)]
    /\ UNCHANGED chat_locals
    /\ UNCHANGED <<events, sse, suspended, _sessions, fn_args>>

NextRegistry == Construct

SpecRegistry == InitRegistry /\ [][NextRegistry]_vars

\* -------------------------------------------- chat_stream and the endpoints
\* POST /api/agent/chat (server.py lines 128-149): the ChatResponse of a
\* chat call that returned, HTTPException(500, str(e)) for one that raised.
chat_endpoint ==
    CASE pc = "DONE" ->
            [status |-> 200, content |-> returned.content,
             toolResults |-> returned.tool_results, detail |-> ""]
      [] pc = "RAISED" ->
            [status |-> 500, content |-> <<>>, toolResults |-> <<>>, detail |-> raised]
      [] OTHER ->
            [status |-> 0, content |-> <<>>, toolResults |-> <<>>, detail |-> ""]

\* {"type": ..., "data": ...}
StreamEvent(type, data) == [type |-> type, data |-> data]

\* f"event: {event_type}\ndata: {event_data}\n\n" with event_data the JSON
\* text of the event's data, kept as the sequence of its parts.
SseFrame(event) == << "event: " \o event.type, "data: ", [json |-> event.data] >>

\* A yield of chat_stream, and the yield of event_generator for it: the
\* body of `async for event in agent.chat_stream(...)`.
Emit(event) ==
    /\ events' = Append(events, event)
    /\ sse' = Append(sse, SseFrame(event))

\* chat_stream(message): the generator is created and yields "start".
StreamStart(msg) ==
    /\ pc \in {"IDLE", "DONE", "RAISED"}
    /\ IF events = <<>> THEN TRUE ELSE events[Len(events)].type \in {"done", "error"}
    /\ events' = << StreamEvent("start", "default") >>
    /\ sse' = << SseFrame(StreamEvent("start", "default")) >>
    /\ fn_args' = [fn |-> "chat_stream", message |-> msg]
    /\ pc' = "IDLE"
    /\ message' = ""
    /\ messages' = <<>>
    /\ tool_results' = <<>>
    /\ round_num' = 0
    /\ response' = <<>>
    /\ tool_calls' = <<>>
    /\ call_idx' = 0
    /\ tool_results_text' = <<>>
    /\ returned' = NoResponse
    /\ raised' = ""
    /\ llm_calls' = 0
    /\ received' = <<>>
    /\ requests' = <<>>
    /\ executed' = <<>>
    /\ raw_content' = <<>>
    /\ UNCHANGED <<suspended, _sessions, fn_result>>

\* response = await self.chat(message, ...) (line 311), up to chat's first
\* await.
StreamCallsChat ==
    /\ Len(events) = 1
    /\ pc = "IDLE"
    /\ ChatStart(fn_args.message)

\* An error event after any event of a call that raised.
StreamErrorAgain ==
    /\ pc = "RAISED"
    /\ Len(events) \in {1, 2}
    /\ Emit(StreamEvent("error", raised))
    /\ UNCHANGED chat_locals
    /\ UNCHANGED <<suspended, _sessions, fn_args, fn_result>>

\* yield {"type": "content", ...} (line 312)
StreamContent ==
    /\ pc = "DONE"
    /\ Len(events) = 1
    /\ Emit(StreamEvent("content", returned.content))
    /\ UNCHANGED chat_locals
    /\ UNCHANGED <<suspended, _sessions, fn_args, fn_result>>

\* yield {"type": "done", ...} (line 313)
StreamDone ==
    /\ pc = "DONE"
    /\ Len(events) = 2
    /\ Emit(StreamEvent("done", "default"))
    /\ UNCHANGED chat_locals
    /\ UNCHANGED <<suspended, _sessions, fn_args, fn_result>>

\* except Exception as e: yield {"type": "error", "data": {"error": str(e)}}
\* (lines 315-316).  Every exception chat raises here is an Exception, so
\* none leaves chat_stream and event_generator's own except clause
\* (server.py lines 177-180) has nothing to catch.
StreamError ==
    /\ pc = "RAISED"
    /\ Len(events) = 1
    /\ Emit(StreamEvent("error", raised))
    /\ UNCHANGED chat_locals
    /\ UNCHANGED <<suspended, _sessions, fn_args, fn_result>>

NextStream ==
    \/ \E msg \in UserMessages : StreamStart(msg)
    \/ StreamCallsChat
    \/ \E text \in ({ <<PROSE>>, Block(DocDetail), Block(DocStringWithTool) }) : LLMResponds(text)
    \/ LLMFails
    \/ \E outcome \in HandlerOutcomes : ExecuteCall(outcome)
    \/ Fold
    \/ StreamContent
    \/ StreamDone
    \/ StreamError

SpecStream == Init /\ [][NextStream]_vars

\* ----------------------------------------------------------- list_collections
\* Nothing of the agent is in use while a tool function is applied on its
\* own.
AgentIdle ==
    /\ pc = "IDLE"
    /\ message = ""
    /\ messages = <<>>
    /\ tool_results = <<>>
    /\ round_num = 0
    /\ response = <<>>
    /\ tool_calls = <<>>
    /\ call_idx = 0
    /\ tool_results_text = <<>>
    /\ returned = NoResponse
    /\ raised = ""
    /\ llm_calls = 0
    /\ received = <<>>
    /\ requests = <<>>
    /\ executed = <<>>
    /\ raw_content = <<>>
    /\ events = <<>>
    /\ sse = <<>>
    /\ suspended = NoFrame
    /\ _sessions = <<>>

\* A collection name is kept as its parts around the dots, so that
\* name.startswith("system.") is a test on its first two parts.

MaxCollections == 3
MaxCount == 2

\* db.list_collection_names() with count_documents({}) of each: up to
\* MaxCollections collections of different names, in the order the server
\* lists them.
RECURSIVE CollectionLists(_)
CollectionLists(n) ==
    IF n = 0 THEN { <<>> }
    ELSE LET shorter == CollectionLists(n - 1)
         IN  shorter \cup
                { Append(l, [name |-> nm, count |-> c]) :
                    l \in { k \in shorter : Len(k) = n - 1 },
                    nm \in ({ <<"clients">>, <<"quotations">>, <<"systems">>, <<"system">>,
                            <<"system", ".", "views">>,
                            <<"app", ".", "system", ".", "log">> }), c \in 0..MaxCount }

DistinctNames(colls) ==
    \A i, j \in 1..Len(colls) : i # j => colls[i].name # colls[j].name

\* name.startswith("system.")
startswith_system(name) == Len(name) >= 2 /\ name[1] = "system" /\ name[2] = "."

\* An insertion that orders by count ascending.
InsertAscending(sorted, entry) ==
    LET before == SelectSeq(sorted, LAMBDA e : e.count <= entry.count)
        after == SelectSeq(sorted, LAMBDA e : e.count > entry.count)
    IN  before \o <<entry>> \o after

\* result.sort(key=lambda x: x["count"], reverse=True) is stable: an entry
\* goes behind every entry of the same or a greater count that was appended
\* before it.
InsertDescending(sorted, entry) ==
    LET before == SelectSeq(sorted, LAMBDA e : e.count >= entry.count)
        after == SelectSeq(sorted, LAMBDA e : e.count < entry.count)
    IN  before \o <<entry>> \o after

RECURSIVE SortByCount(_, _)
SortByCount(result, i) ==
    IF i > Len(result) THEN <<>>
    ELSE InsertDescending(SortByCount(result, i + 1), result[i])

\* The sort of line 94 applied to the appended entries: entries are
\* inserted from the last to the first, so that equal counts keep the order
\* in which they were appended.
sort_reverse(result) ==
    LET Rev(seq) == [k \in 1..Len(seq) |-> seq[Len(seq) + 1 - k]]
    IN  SortByCount(Rev(result), 1)

\* list_collections() on the collections colls (lines 78-96).
list_collections(colls) ==
    LET result == SelectSeq(colls, LAMBDA c : ~startswith_system(c.name))
    IN  sort_reverse(result)

InitCollections ==
    /\ \E colls \in CollectionLists(MaxCollections) :
          /\ DistinctNames(colls)
          /\ fn_args = [fn |-> "list_collections", colls |-> colls]
    /\ fn_result = NoCall
    /\ AgentIdle

ListCollections ==
    /\ fn_args.fn = "list_collections"
    /\ fn_result = NoCall
    /\ fn_result' = [fn |-> "list_collections", raised |-> "",
                     result |-> list_collections(fn_args.colls)]
    /\ UNCHANGED chat_locals
    /\ UNCHANGED <<events, sse, suspended, _sessions, fn_args>>

NextCollections == ListCollections

SpecCollections == InitCollections /\ [][NextCollections]_vars

\* -------------------------------------------------------- get_quotation_detail
\* The quotations collection with the names of its documents: each of the
\* two quotations is absent or has one of two names.
QuotationNames == { "Standard", "Premium" }
QuotationOrder == << QuotationA, QuotationB >>

DetailStores ==
    { [clients |-> <<>>, quotations |-> [id \in DOMAIN names |-> <<>>],
       servicepricings |-> <<>>, quotation_names |-> names] :
        names \in UNION { [ids -> QuotationNames] : ids \in SUBSET {QuotationA, QuotationB} } }

\* QuotationModel.find_by_name: find_one({"name": name}), the first
\* document of that name in the order of the collection.
QuotationModel_find_by_name(db, name) ==
    LET matching == SelectSeq(QuotationOrder,
                        LAMBDA id : id \in DOMAIN db.quotation_names
                                        /\ db.quotation_names[id] = name)
    IN  IF matching = <<>>
        THEN None
        ELSE [isNone |-> FALSE, id |-> matching[1],
              selected_services |-> db.quotations[matching[1]]]

\* get_quotation_detail(quotation_id, name) on the store db (lines 29-38):
\* the exception that leaves it, what it returns and the lookups it made.
get_quotation_detail(db, quotation_id, name) ==
    IF ~Falsy(quotation_id)
    THEN LET found == QuotationModel_find_by_id(db, quotation_id)
             look == << Lookup("QuotationModel", "find_by_id", quotation_id) >>
         IN  IF found.raised # ""
             THEN [raised |-> found.raised, result |-> None, lookups |-> look]
             ELSE IF found.quotation = None
             THEN [raised |-> "", result |-> None, lookups |-> look]
             ELSE [raised |-> "", result |-> QuotationDict(found.quotation),
                   lookups |-> look]
    ELSE IF ~Falsy(name)
    THEN LET quotation == QuotationModel_find_by_name(db, name)
             look == << Lookup("QuotationModel", "find_by_name", name) >>
         IN  IF quotation = None
             THEN [raised |-> "", result |-> None, lookups |-> look]
             ELSE [raised |-> "", result |-> QuotationDict(quotation), lookups |-> look]
    ELSE [raised |-> "", result |-> None, lookups |-> <<>>]

InitDetail ==
    /\ \E db \in DetailStores, quotation_id \in
            ({ "None", "", QuotationA, QuotationB, "Q-2024" }),
            name \in ({ "None", "" } \cup QuotationNames) :
          fn_args = [fn |-> "get_quotation_detail", db |-> db,
                     quotation_id |-> quotation_id, name |-> name]
    /\ fn_result = NoCall
    /\ AgentIdle

GetQuotationDetail ==
    /\ fn_args.fn = "get_quotation_detail"
    /\ fn_result = NoCall
    /\ LET out == get_quotation_detail(fn_args.db, fn_args.quotation_id, fn_args.name)
       IN  fn_result' = [fn |-> "get_quotation_detail", raised |-> out.raised,
                         result |-> out.result, lookups |-> out.lookups]
    /\ UNCHANGED chat_locals
    /\ UNCHANGED <<events, sse, suspended, _sessions, fn_args>>

NextDetail == GetQuotationDetail

SpecDetail == InitDetail /\ [][NextDetail]_vars

\* ------------------------------------------- _filter_think_tags on its own
\* A text in pieces smaller than a marker: "<th" and "ink>" side by side
\* are the characters of <think>, "</th" and "ink>" those of </think>, and
\* either half may stand alone.  The regular expression sees the characters,
\* so it sees a marker wherever two halves are side by side.
HalfOpen == "<th"
HalfClose == "</th"
HalfEnd == "ink>"

\* The markers of a text of pieces, as the regular expression finds them
\* scanning left to right.
RECURSIVE Fuse(_)
Fuse(pieces) ==
    IF pieces = <<>> THEN <<>>
    ELSE IF Len(pieces) >= 2 /\ pieces[1] = HalfOpen /\ pieces[2] = HalfEnd
    THEN <<THINK>> \o Fuse(SubSeq(pieces, 3, Len(pieces)))
    ELSE IF Len(pieces) >= 2 /\ pieces[1] = HalfClose /\ pieces[2] = HalfEnd
    THEN <<ENDTHINK>> \o Fuse(SubSeq(pieces, 3, Len(pieces)))
    ELSE <<Head(pieces)>> \o Fuse(Tail(pieces))

\* The characters of a text whose markers were found: each marker is again
\* its two halves.
RECURSIVE Split(_)
Split(text) ==
    IF text = <<>> THEN <<>>
    ELSE IF Head(text) = THINK THEN <<HalfOpen, HalfEnd>> \o Split(Tail(text))
    ELSE IF Head(text) = ENDTHINK THEN <<HalfClose, HalfEnd>> \o Split(Tail(text))
    ELSE <<Head(text)>> \o Split(Tail(text))

\* self._filter_think_tags(content) on a text of pieces: the string that
\* is returned, in pieces.
filter_pieces(pieces) == Split(_filter_think_tags(Fuse(pieces)))

MaxPieceSegments == 5

RECURSIVE PieceTextsOf(_)
PieceTextsOf(n) ==
    IF n = 0 THEN { <<>> }
    ELSE LET shorter == PieceTextsOf(n - 1)
         IN  shorter \cup { t \o sgm : t \in shorter, sgm \in ({ <<HalfOpen>>, <<HalfEnd>>,
                 <<HalfOpen, HalfEnd>>, <<HalfClose, HalfEnd>>, <<PROSE>>, <<NL>> }) }

InitFilter ==
    /\ \E pieces \in PieceTextsOf(MaxPieceSegments) :
          fn_args = [fn |-> "_filter_think_tags", content |-> pieces]
    /\ fn_result = NoCall
    /\ AgentIdle

\* content = self._filter_think_tags(content)
ApplyFilter ==
    /\ fn_args.fn = "_filter_think_tags"
    /\ fn_result = NoCall
    /\ fn_result' = [fn |-> "_filter_think_tags", times |-> 1,
                     once |-> filter_pieces(fn_args.content),
                     twice |-> <<>>]
    /\ UNCHANGED chat_locals
    /\ UNCHANGED <<events, sse, suspended, _sessions, fn_args>>

\* self._filter_think_tags applied to what it returned.
ApplyFilterAgain ==
    /\ fn_result.fn = "_filter_think_tags"
    /\ fn_result.times = 1
    /\ fn_result' = [fn_result EXCEPT !.times = 2,
                                      !.twice = filter_pieces(fn_result.once)]
    /\ UNCHANGED chat_locals
    /\ UNCHANGED <<events, sse, suspended, _sessions, fn_args>>

NextFilter ==
    \/ ApplyFilter
    \/ ApplyFilterAgain

SpecFilter == InitFilter /\ [][NextFilter]_vars

\* ================================================================== claims
\* A request as the spec defines it: a JSON object with a "tool" key whose
\* value is a string.
WellFormedRequest(call) ==
    call.type = "object" /\ call.hasTool /\ call.toolType = "str"

\* The decoded bodies of the fenced tool_call blocks of a text, in order.
BlockValues(text) ==
    LET matches == re_findall(text)
    IN  [i \in 1..Len(matches) |-> LoadBody(matches[i])]

HasValidBlock(text) ==
    \E i \in 1..Len(BlockValues(text)) : WellFormedRequest(BlockValues(text)[i])

\* Every answer of the completion service so far held a valid block.
EveryResponseCallsATool ==
    \A i \in 1..Len(received) : HasValidBlock(received[i])

\* C1: whatever the completion service answers, a chat call makes at most
\* max_rounds completion-service calls and ends in DONE: it returns a
\* ChatResponse, and no exception other than the completion service's own
\* failure leaves it.
C1_TerminatesInDone ==
    /\ llm_calls <= max_rounds
    /\ pc = "RAISED" => raised = LLMApiError

\* C2: when every answer holds at least one valid tool_call block, the chat
\* call ends only after max_rounds rounds, by returning the fixed content
\* with the result of every request dispatched.
C2_RoundLimitScenario ==
    EveryResponseCallsATool =>
        /\ llm_calls <= max_rounds
        /\ pc = "RAISED" => raised = LLMApiError
        /\ pc = "DONE" =>
              /\ llm_calls = max_rounds
              /\ round_num = max_rounds
              /\ returned.content = TimeoutContent
              /\ returned.isList
              /\ Len(returned.tool_results) = Len(executed)
              /\ \A k \in 1..Len(executed) :
                    /\ executed[k].round \in 0..(max_rounds - 1)
                    /\ returned.tool_results[k].result = executed[k].result
              /\ \A r \in 0..(max_rounds - 1) :
                    \E k \in 1..Len(executed) : executed[k].round = r

\* C3: when the first answer holds no valid tool_call block, the chat call
\* is over after that one completion-service call, has dispatched nothing
\* and has returned the answer as content with tool_results None; and a
\* returned tool_results is None exactly when nothing was dispatched.
C3_NoToolResponse ==
    /\ (received # <<>> /\ ~HasValidBlock(received[1])) =>
          /\ pc = "DONE"
          /\ llm_calls = 1
          /\ executed = <<>>
          /\ returned = ChatResponse(received[1], FALSE, <<>>)
    /\ pc = "DONE" => (returned.isList <=> executed # <<>>)

\* The result dict is {"success": True, "data": ...} or {"error": ...}.
WellFormedResult(result) ==
    \/ result.keys = {"success", "data"} /\ result.success
    \/ result.keys = {"error"}

\* C4: _execute_tool never raises: for every tool name and params value it
\* returns a well-formed result.
C4_ExecuteNeverRaises ==
    \A k \in 1..Len(executed) :
        executed[k].raised = "" /\ WellFormedResult(executed[k].result)

\* The entry of request idx of round r in the user turn folded for round r.
FoldedEntry(r, idx) == messages[4 + 2 * r].content[1 + idx]

\* C5: every dispatched request that failed (unknown tool, or the handler
\* raised, whatever the message) has the error entry "tool {name} error:
\* {error}" in the user turn folded for its round, never a result entry.
C5_FailuresFoldedAsErrors ==
    \A k \in 1..Len(executed) :
        LET e == executed[k] IN
        (e.raised = "" /\ e.result.keys = {"error"} /\ e.round < round_num) =>
            FoldedEntry(e.round, e.idx) = FormatError(e.call.tool, e.result.error)

\* The request names no registered tool.
NotRegistered(call) ==
    ~(call.toolType = "str" /\ call.tool \in {ALL_TOOLS[i].name : i \in 1..Len(ALL_TOOLS)})

\* C6: for a name that is not in the registry _execute_tool runs no handler
\* and returns a failure result whose error text names the requested tool;
\* a handler runs only for a request whose name is its registered name.
C6_UnknownToolName ==
    \A k \in 1..Len(executed) :
        LET e == executed[k] IN
        /\ NotRegistered(e.call) =>
              /\ e.invoked = ""
              /\ e.raised = ""
              /\ e.result = ErrorResult("tool not found: " \o e.call.tool)
        /\ e.invoked # "" =>
              /\ e.call.toolType = "str"
              /\ e.invoked = e.call.tool

\* C7: the parser never raises, and accepts a block only if its body is a
\* JSON object with a "tool" key whose value is a string.
C7_ParserAcceptanceRule ==
    pc = "PARSED" =>
        /\ raised = ""
        /\ \A i \in 1..Len(tool_calls) : WellFormedRequest(tool_calls[i])

\* C8: the parser returns exactly the well-formed blocks of the text, one
\* request per block, in order of appearance (the empty sequence when there
\* is none), whatever malformed blocks stand in between.
C8_ParserResult ==
    pc = "PARSED" =>
        tool_calls = SelectSeq(BlockValues(response), WellFormedRequest)

\* C9: requests are executed one at a time in the order parsed, each after
\* the previous result has been appended, and when a round is over (or the
\* chat call has ended) every parsed request has been executed once:
\* tool_results has one result per parsed request, in order.
C9_SequentialInOrderDispatch ==
    /\ Len(executed) <= Len(requests)
    /\ \A k \in 1..Len(executed) :
          /\ executed[k].call = requests[k]
          /\ executed[k].before = k - 1
    /\ \A k \in 1..Len(tool_results) :
          /\ tool_results[k].tool = requests[k].tool
          /\ tool_results[k].result = executed[k].result
    /\ pc \in {"AWAITING_MODEL", "DONE", "RAISED"} => Len(tool_results) = Len(requests)

\* C10: the transcript sent in round k is the system turn of the prompt
\* assembler, the incoming user message, then k pairs (assistant, user): it
\* has 2 + 2k turns and ends with a user turn.
C10_TranscriptShape ==
    pc = "AWAITING_MODEL" =>
        /\ llm_calls = round_num
        /\ Len(messages) = 2 + 2 * llm_calls
        /\ messages[1] = Message("system", _build_system_prompt(""))
        /\ messages[2] = Message("user", <<message>>)
        /\ \A i \in 3..Len(messages) :
              messages[i].role = IF i % 2 = 1 THEN "assistant" ELSE "user"
        /\ messages[Len(messages)].role = "user"

\* A fifth completion-service call is about to be made with the four pairs
\* of the earlier rounds in the transcript.
C10_Witness ==
    pc = "AWAITING_MODEL" /\ round_num = max_rounds - 1 /\ Len(messages) = 2 * max_rounds

\* The entry a successful result must be folded as: its serialization when
\* that has no more than 2000 characters, else the first 2000 characters
\* followed by the marker.
ExpectedResultEntry(tool_name, data) ==
    LET serialized == json_dumps(data)
    IN  IF len(serialized) <= 2000
        THEN FormatResult(tool_name, serialized)
        ELSE FormatResult(tool_name, Slice(serialized, 2000) \o TruncationMarker)

\* The entry a failure must be folded as if error messages are cut to the
\* same budget.
ExpectedErrorEntry(tool_name, error) ==
    IF len(error) <= 2000
    THEN FormatError(tool_name, error)
    ELSE FormatError(tool_name, Slice(error, 2000) \o TruncationMarker)

Succeeded(e) == e.raised = "" /\ e.result.keys = {"success", "data"}
Failed(e) == e.raised = "" /\ e.result.keys = {"error"} /\ e.result.error # ""
Folded(e) == round_num > e.round

\* C11: the entry of a successful result in the folded user turn is the
\* serialization unchanged when it has 2000 characters or fewer, and exactly
\* its first 2000 characters followed by the truncation marker when it is
\* longer.
C11_SuccessTruncation ==
    \A k \in 1..Len(executed) :
        (Succeeded(executed[k]) /\ Folded(executed[k])) =>
            FoldedEntry(executed[k].round, executed[k].idx)
                = ExpectedResultEntry(executed[k].call.tool, executed[k].result.data)

\* A round has been folded with a result of exactly 2000 characters and one
\* of more than 2000.
C11_Witness ==
    /\ round_num = 1
    /\ Len(executed) = 2
    /\ Succeeded(executed[1]) /\ len(json_dumps(executed[1].result.data)) = 2000
    /\ Succeeded(executed[2]) /\ len(json_dumps(executed[2].result.data)) > 2000

\* C12: every entry of the folded user turn is cut to the budget, error
\* entries included: an error message of more than 2000 characters is folded
\* as its first 2000 characters followed by the truncation marker.
C12_EveryEntryTruncated ==
    \A k \in 1..Len(executed) :
        Folded(executed[k]) =>
            /\ Succeeded(executed[k]) =>
                  FoldedEntry(executed[k].round, executed[k].idx)
                      = ExpectedResultEntry(executed[k].call.tool,
                                            executed[k].result.data)
            /\ Failed(executed[k]) =>
                  FoldedEntry(executed[k].round, executed[k].idx)
                      = ExpectedErrorEntry(executed[k].call.tool,
                                           executed[k].result.error)

\* The types of the events yielded so far.
EventTypes == [i \in 1..Len(events) |-> events[i].type]

\* C13: a failed completion-service call ends the chat call: it is the last
\* completion-service call of that chat call (every earlier one returned a
\* text, none is repeated), nothing is dispatched after it, chat raises and
\* returns no ChatResponse, the HTTP endpoint answers 500 with the message
\* and the stream's only event after start is error.
C13_TransportFailureTerminal ==
    /\ [](llm_calls = Len(received) + (IF raised = LLMApiError THEN 1 ELSE 0))
    /\ [](raised = LLMApiError =>
            /\ pc = "RAISED"
            /\ returned = NoResponse
            /\ chat_endpoint.status = 500
            /\ chat_endpoint.detail = LLMApiError
            /\ EventTypes \in { <<"start">>, <<"start", "error">> })
    /\ [][raised = LLMApiError =>
            \/ /\ llm_calls' = llm_calls
               /\ executed' = executed
               /\ received' = received
               /\ pc' = "RAISED"
            \/ /\ llm_calls' = 0
               /\ executed' = <<>>
               /\ raised' = ""]_vars

\* The completion service failed in a later round, after tools were
\* dispatched, and the stream has reported it.
C13_Witness ==
    /\ raised = LLMApiError
    /\ round_num >= 1
    /\ executed # <<>>
    /\ EventTypes = <<"start", "error">>

\* C14: the events of a chat_stream call are start, then content and done
\* when chat returned, or error when chat raised; nothing follows done or
\* error, content carries the returned answer, error the exception, and the
\* SSE endpoint has forwarded exactly these events in this order.
C14_StreamProtocol ==
    /\ EventTypes \in { <<>>, <<"start">>, <<"start", "content">>,
                         <<"start", "content", "done">>, <<"start", "error">> }
    /\ Len(events) >= 2 =>
          /\ events[2].type = "content" =>
                pc = "DONE" /\ events[2].data = returned.content
          /\ events[2].type = "error" =>
                pc = "RAISED" /\ events[2].data = raised
    /\ Len(sse) = Len(events)
    /\ \A i \in 1..Len(events) :
          /\ sse[i][1] = "event: " \o events[i].type
          /\ sse[i][3].json = events[i].data

\* A stream whose chat call raised after a round of dispatch has ended with
\* error.
C14_Witness ==
    /\ EventTypes = <<"start", "error">>
    /\ round_num >= 1
    /\ raised # ""
    /\ Len(sse) = 2

\* Position i of the text lies inside a paired reasoning block: a <think>
\* before it is not closed before i and a </think> follows i.
InsideThink(text, i) ==
    /\ \E a \in 1..(i - 1) :
          /\ text[a] = THINK
          /\ \A j \in (a + 1)..(i - 1) : text[j] # ENDTHINK
    /\ \E b \in (i + 1)..Len(text) : text[b] = ENDTHINK

\* Where the tool_call blocks of a text open, and those outside every paired
\* reasoning block.
Openers(text) == { i \in 1..Len(text) : text[i] = OPEN }
OutsideOpeners(text) == { i \in Openers(text) : ~InsideThink(text, i) }

\* C15: the requests parsed from an answer are exactly the tool_call blocks
\* outside its paired <think>...</think> blocks, only parsed requests are
\* dispatched and recorded in tool_results, and an answer whose blocks are
\* all inside reasoning blocks ends the chat call as the final answer.
C15_ParsesPostProcessedText ==
    raw_content # <<>> =>
        /\ Len(requests) = Cardinality(OutsideOpeners(raw_content))
        /\ \A k \in 1..Len(requests) :
              \E i \in OutsideOpeners(raw_content) : raw_content[i + 2] = requests[k].doc
        /\ Len(executed) <= Len(requests)
        /\ \A k \in 1..Len(executed) : executed[k].call = requests[k]
        /\ Len(tool_results) <= Len(executed)
        /\ OutsideOpeners(raw_content) = {} =>
              /\ pc = "DONE"
              /\ executed = <<>>
              /\ returned = ChatResponse(response, FALSE, <<>>)
              /\ \A i \in 1..Len(response) : response[i] # OPEN

\* The answer has a tool_call block, every block of it is inside a paired
\* reasoning block, and the chat call is over.
C15_Witness ==
    /\ raw_content # <<>>
    /\ Openers(raw_content) # {}
    /\ OutsideOpeners(raw_content) = {}
    /\ pc = "DONE"

\* The per-tool entries of round r of a chat call, from the results its
\* own dispatches had.
EntriesOfRound(f, r) ==
    LET recs == SelectSeq(f.executed, LAMBDA e : e.round = r /\ e.raised = "")
    IN  [k \in 1..Len(recs) |-> FormatEntry(recs[k].call.tool, recs[k].result)]

\* The result list of a chat call, from its own dispatches.
ResultsOf(f) ==
    LET recs == SelectSeq(f.executed, LAMBDA e : e.raised = "")
    IN  [k \in 1..Len(recs) |-> [tool |-> recs[k].call.tool, result |-> recs[k].result]]

\* The state of a chat call is what its own message, the answers it got
\* and the results of its own dispatches make it: the transcript is the
\* system turn, its message and one (assistant, user) pair per round it
\* folded, the result list holds its own results, and what it returned is
\* built from them.
RanAlone(f) ==
    /\ f.pc = "IDLE" => f.messages = <<>> /\ f.tool_results = <<>>
    /\ f.pc # "IDLE" =>
          /\ Len(f.messages) = 2 + 2 * f.round_num
          /\ f.messages[1] = Message("system", system_prompt)
          /\ f.messages[2] = Message("user", <<f.message>>)
          /\ \A r \in 0..(f.round_num - 1) :
                /\ f.messages[3 + 2 * r] = Message("assistant", f.received[r + 1])
                /\ f.messages[4 + 2 * r]
                      = Message("user", FoldContent(EntriesOfRound(f, r)))
          /\ f.tool_results = ResultsOf(f)
          /\ f.llm_calls = 0 => f.messages = << Message("system", system_prompt),
                                               Message("user", <<f.message>>) >>
                                /\ f.tool_results = <<>>
    /\ f.pc = "DONE" =>
          f.returned = IF f.round_num = max_rounds
                       THEN ChatResponse(TimeoutContent, TRUE, ResultsOf(f))
                       ELSE ChatResponse(f.received[Len(f.received)],
                                         ResultsOf(f) # <<>>, ResultsOf(f))
    /\ f.pc = "RAISED" => f.returned = NoResponse

\* C16: under every interleaving of two chat calls at their await points,
\* each call starts from [system turn, its user message] and an empty result
\* list, and its transcript, tool_results and returned response are those of
\* the call run alone with the same answers.
C16_ChatCallIsolation ==
    /\ RanAlone(Frame)
    /\ suspended # NoFrame => RanAlone(suspended)

\* Both calls are under way with different messages, each has folded a
\* round, and their result lists differ.
C16_Witness ==
    /\ suspended # NoFrame
    /\ pc = "AWAITING_MODEL" /\ suspended.pc = "AWAITING_MODEL"
    /\ round_num >= 1 /\ suspended.round_num >= 1
    /\ message # suspended.message
    /\ tool_results # suspended.tool_results

\* C17: clear_session never raises and the endpoint answers ok; the store
\* afterwards is the store before without the named session, every other
\* session kept with its transcript; for an absent id the store is
\* unchanged, and so it is for a second call in a row with the same id.
C17_ClearSessionIdempotent ==
    fn_args.fn = "clear_session" =>
        /\ fn_result.raised = ""
        /\ fn_result.status = "ok"
        /\ DOMAIN _sessions = DOMAIN fn_args.before \ {fn_args.session_id}
        /\ \A id \in DOMAIN _sessions : _sessions[id] = fn_args.before[id]
        /\ fn_args.session_id \notin DOMAIN fn_args.before =>
              _sessions = fn_args.before
        /\ fn_args.previous = fn_args.session_id => _sessions = fn_args.before

\* The same session was cleared twice in a row while other sessions are
\* stored.
C17_Witness ==
    /\ fn_args.fn = "clear_session"
    /\ fn_args.previous = fn_args.session_id
    /\ fn_args.session_id \notin DOMAIN fn_args.before
    /\ DOMAIN _sessions # {}
    /\ fn_result.status = "ok"

\* query_client_quotation has been applied.
Queried == fn_result.fn = "query_client_quotation"
AskedClientKnown == fn_args.client_name \in DOMAIN fn_args.db.clients
AskedQuotationId == fn_args.db.clients[fn_args.client_name]
OnlyClientLookup ==
    /\ Len(fn_result.lookups) = 1
    /\ fn_result.lookups[1].model = "ClientModel"

\* C18: for a name with no client record the tool returns client null,
\* quotation null, no services, total_services 0 and the not-found message
\* with the name in it, and looks up neither a quotation nor service
\* pricings.
C18_UnknownClientShortCircuit ==
    (Queried /\ ~AskedClientKnown) =>
        /\ fn_result.raised = ""
        /\ fn_result.result.client = None
        /\ fn_result.result.quotation = None
        /\ fn_result.result.services = <<>>
        /\ fn_result.result.total_services = 0
        /\ fn_result.result.message = "client not found: " \o fn_args.client_name
        /\ OnlyClientLookup

\* The tool was asked for an unknown name while the store holds clients,
\* quotations and service pricings.
C18_Witness ==
    /\ Queried
    /\ ~AskedClientKnown
    /\ DOMAIN fn_args.db.clients # {}
    /\ DOMAIN fn_args.db.quotations # {}
    /\ fn_args.db.servicepricings # <<>>

\* C19: the tool stops at the first missing link with a message: a client
\* without quotation id gives the client, no quotation, no services and no
\* further lookup; a quotation id with no quotation record gives the client,
\* no quotation, no services, no service lookup and a message with the id in
\* it; and the message is null exactly when client and quotation were both
\* found.
C19_FirstMissingLink ==
    (Queried /\ AskedClientKnown) =>
        /\ Falsy(AskedQuotationId) =>
              /\ fn_result.raised = ""
              /\ fn_result.result.client # None
              /\ fn_result.result.client.name = fn_args.client_name
              /\ fn_result.result.quotation = None
              /\ fn_result.result.services = <<>>
              /\ fn_result.result.message \notin {"None", ""}
              /\ OnlyClientLookup
        /\ (~Falsy(AskedQuotationId)
                /\ AskedQuotationId \notin DOMAIN fn_args.db.quotations) =>
              /\ fn_result.raised = ""
              /\ fn_result.result.client # None
              /\ fn_result.result.client.name = fn_args.client_name
              /\ fn_result.result.quotation = None
              /\ fn_result.result.services = <<>>
              /\ fn_result.result.message
                    = "quotation does not exist (ID: " \o AskedQuotationId \o ")"
              /\ \A i \in 1..Len(fn_result.lookups) :
                    fn_result.lookups[i].model # "ServicePricingModel"
        /\ fn_result.raised = "" =>
              ((fn_result.result.message = "None")
                  <=> (fn_result.result.client # None
                          /\ fn_result.result.quotation # None))

\* Two functions of the list have the same name.
HasDuplicateName(all_tools) ==
    \E i, j \in 1..Len(all_tools) : i # j /\ all_tools[i].name = all_tools[j].name

C21_ListCollectionsSorted ==
    fn_result.fn = "list_collections" =>
        LET colls == fn_args.colls
            result == fn_result.result
        IN  /\ \A i \in 1..Len(colls) :
                  ~(Len(colls[i].name) >= 2 /\ colls[i].name[1] = "system"
                        /\ colls[i].name[2] = ".")
                    => Cardinality({ k \in 1..Len(result) : result[k] = colls[i] }) = 1
            /\ \A k \in 1..Len(result) :
                  /\ \E i \in 1..Len(colls) : colls[i] = result[k]
                  /\ ~(Len(result[k].name) >= 2 /\ result[k].name[1] = "system"
                          /\ result[k].name[2] = ".")
            /\ \A k \in 1..(Len(result) - 1) : result[k].count >= result[k + 1].count

\* A system collection was left out and the listed order was changed by
\* the sort.
C21_Witness ==
    /\ fn_result.fn = "list_collections"
    /\ Len(fn_args.colls) = 3
    /\ Len(fn_result.result) = 2
    /\ fn_result.result[1].count > fn_result.result[2].count
    /\ fn_result.result[1] = fn_args.colls[3]

\* The dispatches of round r, in the order they were made.
DispatchedIn(r) == SelectSeq(executed, LAMBDA e : e.round = r)

\* C22: the user turn folded at the end of a round holds, between its
\* header and its closing line, one entry per request parsed from that
\* round's answer, in parse order, each the formatted result of that
\* request's dispatch in that round; while a round is dispatched its entry
\* list holds only that round's entries; and the tool_results returned hold
\* the results of all rounds.
C22_FoldedTurnOfRound ==
    /\ \A r \in 0..(round_num - 1) :
          LET recs == DispatchedIn(r)
              calls == _parse_tool_calls(received[r + 1]).calls
              turn == messages[4 + 2 * r]
          IN  /\ turn.role = "user"
              /\ Len(recs) = Len(calls)
              /\ Len(turn.content) = Len(calls) + 2
              /\ \A k \in 1..Len(recs) :
                    /\ recs[k].call = calls[k]
                    /\ recs[k].idx = k
                    /\ turn.content[1 + k]
                          = FormatEntry(recs[k].call.tool, recs[k].result)
    /\ pc = "DISPATCHING" =>
          /\ Len(tool_results_text) = call_idx - 1
          /\ \A k \in 1..Len(tool_results_text) :
                LET recs == DispatchedIn(round_num)
                IN  tool_results_text[k] = FormatEntry(recs[k].call.tool, recs[k].result)
    /\ pc = "DONE" =>
          /\ Len(returned.tool_results) = Len(executed)
          /\ \A k \in 1..Len(executed) :
                returned.tool_results[k]
                    = [tool |-> executed[k].call.tool, result |-> executed[k].result]

\* A chat call has returned after two rounds, the first of which folded
\* two entries.
C22_Witness ==
    /\ pc = "DONE"
    /\ round_num >= 2
    /\ Len(messages[4].content) = 4
    /\ Len(returned.tool_results) >= 3

\* C23: with a quotation_id given, get_quotation_detail looks up by id only
\* and returns that record, or null when no quotation has the id, whatever
\* the name; with no or an empty quotation_id and a name given it looks up
\* by name only and returns a record of that name, or null when there is
\* none; with neither it returns null and makes no lookup.
C23_LookupPrecedence ==
    fn_result.fn = "get_quotation_detail" =>
        LET db == fn_args.db
            id == fn_args.quotation_id
            name == fn_args.name
            result == fn_result.result
            idGiven == id \notin {"None", ""}
            nameGiven == name \notin {"None", ""}
        IN  /\ fn_result.raised = ""
            /\ idGiven =>
                  /\ Len(fn_result.lookups) = 1
                  /\ fn_result.lookups[1].method = "find_by_id"
                  /\ fn_result.lookups[1].arg = id
                  /\ IF id \in DOMAIN db.quotation_names
                     THEN result # None /\ result.id = id
                     ELSE result = None
            /\ (~idGiven /\ nameGiven) =>
                  /\ Len(fn_result.lookups) = 1
                  /\ fn_result.lookups[1].method = "find_by_name"
                  /\ fn_result.lookups[1].arg = name
                  /\ IF \E q \in DOMAIN db.quotation_names : db.quotation_names[q] = name
                     THEN result # None /\ db.quotation_names[result.id] = name
                     ELSE result = None
            /\ (~idGiven /\ ~nameGiven) =>
                  /\ fn_result.lookups = <<>>
                  /\ result = None

\* The service ids the asked client's quotation selects.
AskedSelected == fn_args.db.quotations[AskedQuotationId]

\* C24: in every result query_client_quotation returns, total_services is
\* the number of entries of services, a quotation comes only with a client
\* and services only with a quotation; and when the quotation was found,
\* total_services is the number of stored pricing records among the ids it
\* selects, never more than the number of ids selected.
C24_ResultShape ==
    (Queried /\ fn_result.raised = "") =>
        LET result == fn_result.result
        IN  /\ result.total_services = Len(result.services)
            /\ result.quotation # None => result.client # None
            /\ result.services # <<>> => result.quotation # None
            /\ result.quotation # None =>
                  /\ result.total_services
                        = Cardinality({ i \in 1..Len(fn_args.db.servicepricings) :
                              \E k \in 1..Len(AskedSelected) :
                                  AskedSelected[k] = fn_args.db.servicepricings[i] })
                  /\ result.total_services <= Len(AskedSelected)

\* A result was returned with fewer pricing records than the quotation
\* selects service ids.
C24_Witness ==
    /\ Queried
    /\ fn_result.raised = ""
    /\ fn_result.result.quotation # None
    /\ fn_result.result.total_services = 1
    /\ Len(AskedSelected) = 2
    /\ AskedSelected[1] # AskedSelected[2]
    /\ "" \notin { AskedSelected[k] : k \in 1..2 }

\* The text, read as characters, holds a <think> with a </think> after it.
HasThinkPair(pieces) ==
    LET text == Fuse(pieces)
    IN  \E a, b \in 1..Len(text) : a < b /\ text[a] = THINK /\ text[b] = ENDTHINK

\* C25: what _filter_think_tags returns holds no complete
\* <think>...</think> pair, for texts with nested or overlapping markers
\* too, and filtering it again returns it unchanged.
C25_FilterRemovesEveryBlock ==
    /\ (fn_result.fn = "_filter_think_tags" /\ fn_result.times >= 1) =>
          ~HasThinkPair(fn_result.once)
    /\ (fn_result.fn = "_filter_think_tags" /\ fn_result.times = 2) =>
          fn_result.twice = fn_result.once

====
